---- MODULE Spec2Model ----
(***************************************************************************)
(* A model of py-aiger-bv: the word-level circuit layer (AIGBV) over the   *)
(* bit-level And-Inverter-Graph engine, in its two packages                *)
(*   aiger_bv/aigbv.py, aiger_bv/expr.py   (BundleMap based)               *)
(*   aigerbv/aigbv.py                       (name-map based)               *)
(* Circuits are immutable values; every operation is a function from       *)
(* circuits to a circuit or to a raised exception.  A Python exception is  *)
(* modelled as a result record with ok = FALSE and the exception's kind.   *)
(***************************************************************************)
EXTENDS Integers, Sequences, FiniteSets, TLC

(***************************************************************************)
(* Bounds of the model.                                                    *)
(***************************************************************************)
MaxWidth == 2
MaxHorizon == 2

(***************************************************************************)
(* Results: a value, or the exception a call raised.                       *)
(***************************************************************************)
Ok(v) == [ok |-> TRUE, val |-> v, err |-> "none"]
Err(e) == [ok |-> FALSE, val |-> <<>>, err |-> e]

(***************************************************************************)
(* Names.  A name is a string, modelled as the sequence of its tokens: a   *)
(* text, an index "[i]", a time stamp "##time_t", or a generated fresh     *)
(* name.  "x[0]##time_1" is <<Txt("x"), Idx(0), Time(1)>>; concatenation is*)
(* \o and the regular expressions of the source are matches on the tail.   *)
(***************************************************************************)
Txt(s) == <<"txt", s, 0>>
Idx(i) == <<"idx", "", i>>
Time(t) == <<"time", "", t>>
Fresh(k) == <<"fresh", "", k>>
W(s) == <<Txt(s)>>
FreshName(k) == <<Fresh(k)>>

Range(f) == {f[i] : i \in DOMAIN f}
\* A local variable of the source holds a value computed once, where it is
\* assigned: The({e : x \in {v}}) is e with x assigned v.
The(S) == CHOOSE x \in S : TRUE
Restrict(f, S) == [k \in S |-> f[k]]
EmptyMap == [k \in {} |-> 0]
(***************************************************************************)
(* The bit-level engine (package aiger, consumed through the interface of  *)
(* the specification's section 6).  A node of the graph is an input, a     *)
(* latch's current value, the constant false, an inverter or an AND.       *)
(***************************************************************************)
In(n) == <<"in", n>>
LatchIn(n) == <<"latch", n>>
ConstFalse == <<"const">>
Not(e) == <<"not", e>>
And(a, b) == <<"and", a, b>>
OrE(a, b) == Not(And(Not(a), Not(b)))
XorE(a, b) == And(OrE(a, b), Not(And(a, b)))
ConstE(b) == IF b THEN Not(ConstFalse) ELSE ConstFalse

RECURSIVE EvalE(_, _, _)
EvalE(e, iv, lv) ==
  CASE e[1] = "in" -> iv[e[2]]
    [] e[1] = "latch" -> lv[e[2]]
    [] e[1] = "const" -> FALSE
    [] e[1] = "not" -> ~EvalE(e[2], iv, lv)
    [] e[1] = "and" -> EvalE(e[2], iv, lv) /\ EvalE(e[3], iv, lv)

\* Replace the inputs in DOMAIN m by the nodes m gives.
RECURSIVE SubstIn(_, _)
SubstIn(e, m) ==
  CASE e[1] = "in" -> IF e[2] \in DOMAIN m THEN m[e[2]] ELSE e
    [] e[1] = "latch" -> e
    [] e[1] = "const" -> e
    [] e[1] = "not" -> Not(SubstIn(e[2], m))
    [] e[1] = "and" -> And(SubstIn(e[2], m), SubstIn(e[3], m))

\* Replace the latch reads in DOMAIN m by the nodes m gives.
RECURSIVE SubstLatch(_, _)
SubstLatch(e, m) ==
  CASE e[1] = "in" -> e
    [] e[1] = "latch" -> IF e[2] \in DOMAIN m THEN m[e[2]] ELSE e
    [] e[1] = "const" -> e
    [] e[1] = "not" -> Not(SubstLatch(e[2], m))
    [] e[1] = "and" -> And(SubstLatch(e[2], m), SubstLatch(e[3], m))

Aig(ins, nodes, lnext, linit) ==
  [inputs |-> ins, node_map |-> nodes, latch_map |-> lnext, latch2init |-> linit]
AigOutputs(a) == DOMAIN a.node_map
AigLatches(a) == DOMAIN a.latch_map
EmptyAig == Aig({}, EmptyMap, EmptyMap, EmptyMap)

\* Rename the keys of f by r (keys outside DOMAIN r stay).
Ren(r, k) == IF k \in DOMAIN r THEN r[k] ELSE k
RenameKeys(f, r) ==
  [k2 \in {Ren(r, k) : k \in DOMAIN f} |->
     f[CHOOSE k \in DOMAIN f : Ren(r, k) = k2]]

\* aig >> aig
AigSeq(a, b) ==
  LET interface == AigOutputs(a) \cap b.inputs
      wire == Restrict(a.node_map, interface)
  IN IF (AigOutputs(a) \ interface) \cap AigOutputs(b) # {}
        \/ AigLatches(a) \cap AigLatches(b) # {}
     THEN Err("AssertionError")
     ELSE Ok(Aig(a.inputs \cup (b.inputs \ interface),
                 [o \in AigOutputs(b) |-> SubstIn(b.node_map[o], wire)]
                   @@ Restrict(a.node_map, AigOutputs(a) \ interface),
                 a.latch_map
                   @@ [l \in AigLatches(b) |-> SubstIn(b.latch_map[l], wire)],
                 a.latch2init @@ b.latch2init))

\* aig | aig
AigPar(a, b) ==
  IF AigOutputs(a) \cap AigOutputs(b) # {} \/ AigLatches(a) \cap AigLatches(b) # {}
  THEN Err("AssertionError")
  ELSE Ok(Aig(a.inputs \cup b.inputs, a.node_map @@ b.node_map,
              a.latch_map @@ b.latch_map, a.latch2init @@ b.latch2init))

\* aig[kind, relabels]
AigRelabel(a, kind, r) ==
  CASE kind = "i" ->
         LET m == [k \in DOMAIN r |-> In(r[k])]
         IN Aig({Ren(r, k) : k \in a.inputs},
                [o \in AigOutputs(a) |-> SubstIn(a.node_map[o], m)],
                [l \in AigLatches(a) |-> SubstIn(a.latch_map[l], m)],
                a.latch2init)
    [] kind = "o" ->
         Aig(a.inputs, RenameKeys(a.node_map, r), a.latch_map, a.latch2init)
    [] kind = "l" ->
         LET m == [k \in DOMAIN r |-> LatchIn(r[k])]
         IN Aig(a.inputs,
                [o \in AigOutputs(a) |-> SubstLatch(a.node_map[o], m)],
                RenameKeys([l \in AigLatches(a) |-> SubstLatch(a.latch_map[l], m)], r),
                RenameKeys(a.latch2init, r))

\* aig(inputs, latches): the outputs and the next latch values.
AigCall(a, iv, lv) ==
  IF ~(a.inputs \subseteq DOMAIN iv)
  THEN Err("KeyError")
  ELSE LET lat == [l \in AigLatches(a) |->
                     IF l \in DOMAIN lv THEN lv[l] ELSE a.latch2init[l]]
       IN Ok([out |-> [o \in AigOutputs(a) |-> EvalE(a.node_map[o], iv, lat)],
              lat |-> [l \in AigLatches(a) |-> EvalE(a.latch_map[l], iv, lat)]])

(***************************************************************************)
(* Bundles and bundle maps (aiger_bv/bundle.py).  A bundle map gives each  *)
(* word name its size; the bundle of word w of size n is w[0] .. w[n-1].   *)
(***************************************************************************)
Bundle(name, size) == [i \in 1 .. size |-> name \o <<Idx(i - 1)>>]
BmBits(bm) == UNION {Range(Bundle(w, bm[w])) : w \in DOMAIN bm}

\* BundleMap.__add__: the disjoint union.
BmAdd(m1, m2) ==
  IF DOMAIN m1 \cap DOMAIN m2 # {} THEN Err("NameCollision") ELSE Ok(m1 @@ m2)

\* BundleMap.omit
BmOmit(bm, names) == Restrict(bm, DOMAIN bm \ names)

\* BundleMap.relabel: the word names renamed, each carrying its size.
BmRelabel(bm, r) == RenameKeys(bm, r)

\* BundleMap.__getitem__: the size of a word, or the failed lookup.
BmGet(bm, w) == IF w \in DOMAIN bm THEN Ok(bm[w]) ELSE Err("UnknownSignal")

\* BundleMap.blast: word values to bit values.
BmBlast(bm, wv) ==
  IF ~(DOMAIN wv \subseteq DOMAIN bm)
  THEN Err("UnknownSignal")
  ELSE Ok([b \in BmBits(Restrict(bm, DOMAIN wv)) |->
             LET w == CHOOSE w \in DOMAIN wv : b \in Range(Bundle(w, bm[w]))
             IN wv[w][b[Len(b)][3] + 1]])

\* BundleMap.unblast: bit values to word values.
BmUnblast(bm, bv) ==
  [w \in DOMAIN bm |-> [i \in 1 .. bm[w] |-> bv[Bundle(w, bm[w])[i]]]]

(***************************************************************************)
(* Word circuits of package aiger_bv.                                      *)
(***************************************************************************)
AIGBV(aig, imap, omap, lmap) == [aig |-> aig, imap |-> imap, omap |-> omap, lmap |-> lmap]
Inputs(c) == DOMAIN c.imap
Outputs(c) == DOMAIN c.omap
Latches(c) == DOMAIN c.lmap

\* AIGBV.__call__
Call(c, wv, lv) ==
  LET bi == BmBlast(c.imap, wv)
      bl == BmBlast(c.lmap, lv)
  IN IF ~bi.ok THEN bi
     ELSE IF ~bl.ok THEN bl
     ELSE LET r == AigCall(c.aig, bi.val, bl.val)
          IN IF ~r.ok THEN r
             ELSE Ok([out |-> BmUnblast(c.omap, r.val.out),
                      lat |-> BmUnblast(c.lmap, r.val.lat)])

\* AIGBV.__rshift__; a failed assertion of lines 50-51 is the InterfaceConflict.
RshiftNoLatchCheck(a, b) ==
  LET interface == Outputs(a) \cap Inputs(b)
      g == AigSeq(a.aig, b.aig)
      im == BmAdd(a.imap, BmOmit(b.imap, interface))
      om == BmAdd(b.omap, BmOmit(a.omap, interface))
  IN IF (Outputs(a) \ interface) \cap Outputs(b) # {} THEN Err("InterfaceConflict")
     ELSE IF ~g.ok THEN g
     ELSE IF ~im.ok THEN im
     ELSE IF ~om.ok THEN om
     ELSE Ok(AIGBV(g.val, im.val, om.val, a.lmap @@ b.lmap))

RshiftInputsOfB(a, b) ==
  LET interface == Outputs(a) \cap Inputs(b)
      g == AigSeq(a.aig, b.aig)
      om == BmAdd(b.omap, BmOmit(a.omap, interface))
      lm == BmAdd(a.lmap, b.lmap)
  IN IF Latches(a) \cap Latches(b) # {} THEN Err("InterfaceConflict")
     ELSE IF (Outputs(a) \ interface) \cap Outputs(b) # {} THEN Err("InterfaceConflict")
     ELSE IF ~g.ok THEN g
     ELSE IF ~om.ok THEN om
     ELSE IF ~lm.ok THEN lm
     ELSE Ok(AIGBV(g.val, BmOmit(b.imap, interface), om.val, lm.val))

Rshift(a, b) ==
  LET interface == Outputs(a) \cap Inputs(b)
      g == AigSeq(a.aig, b.aig)
      im == BmAdd(a.imap, BmOmit(b.imap, interface))
      om == BmAdd(b.omap, BmOmit(a.omap, interface))
      lm == BmAdd(a.lmap, b.lmap)
  IN IF Latches(a) \cap Latches(b) # {} THEN Err("InterfaceConflict")
     ELSE IF (Outputs(a) \ interface) \cap Outputs(b) # {} THEN Err("InterfaceConflict")
     ELSE IF ~g.ok THEN g
     ELSE IF ~im.ok THEN im
     ELSE IF ~om.ok THEN om
     ELSE IF ~lm.ok THEN lm
     ELSE Ok(AIGBV(g.val, im.val, om.val, lm.val))

\* AIGBV.__lshift__
Lshift(a, b) == Rshift(b, a)

\* AIGBV.__getitem__; the failed assertion of line 90 is the NameCollision.
\* fn.merge of no dictionary (lines 95-98, no source of relabels is a word of
\* bmap1) is None, and the bit-level relabeling that has a name to look up in
\* it raises.
GetItem(c, kind, r) ==
  IF kind \notin {"i", "o", "l"} THEN Err("NotImplementedError")
  ELSE LET bmap1 == CASE kind = "i" -> c.imap [] kind = "o" -> c.omap [] kind = "l" -> c.lmap
           bmap2 == BmRelabel(bmap1, r)
           present == DOMAIN r \cap DOMAIN bmap1
           oldbits == UNION {Range(Bundle(k, bmap1[k])) : k \in present}
           relabels_aig ==
             [b \in oldbits |->
                LET k == CHOOSE k \in present : b \in Range(Bundle(k, bmap1[k]))
                IN Bundle(r[k], bmap2[r[k]])[b[Len(b)][3] + 1]]
           names == CASE kind = "i" -> c.aig.inputs
                      [] kind = "o" -> AigOutputs(c.aig)
                      [] kind = "l" -> AigLatches(c.aig)
       IN IF Range(r) \cap DOMAIN bmap1 # {} THEN Err("NameCollision")
          ELSE IF present = {} /\ names # {} THEN Err("AttributeError")
          ELSE Ok(AIGBV(AigRelabel(c.aig, kind, relabels_aig),
                        IF kind = "i" THEN bmap2 ELSE c.imap,
                        IF kind = "o" THEN bmap2 ELSE c.omap,
                        IF kind = "l" THEN bmap2 ELSE c.lmap))

(***************************************************************************)
(* Gates of aiger_bv/common.py used by the composition operators.          *)
(***************************************************************************)
RECURSIVE Enum(_)
Enum(S) == IF S = {} THEN <<>>
           ELSE LET x == CHOOSE x \in S : TRUE IN <<x>> \o Enum(S \ {x})
Pos(seq, x) == CHOOSE i \in 1 .. Len(seq) : seq[i] = x

NoneArg == [some |-> FALSE, val |-> <<>>]
Some(v) == [some |-> TRUE, val |-> v]

\* common.identity_gate(wordlen, input, output)
IdentityGate(n, input, output) ==
  AIGBV(Aig(Range(Bundle(input, n)),
            [o \in Range(Bundle(output, n)) |-> In(Bundle(input, n)[o[Len(o)][3] + 1])],
            EmptyMap, EmptyMap),
        [w \in {input} |-> n], [w \in {output} |-> n], EmptyMap)

\* common.bitwise_negate(wordlen, input, output)
BitwiseNegate(n, input, output) ==
  AIGBV(Aig(Range(Bundle(input, n)),
            [o \in Range(Bundle(output, n)) |->
               Not(In(Bundle(input, n)[o[Len(o)][3] + 1]))],
            EmptyMap, EmptyMap),
        [w \in {input} |-> n], [w \in {output} |-> n], EmptyMap)

\* common.tee(wordlen, {orig: news}): the fan-out of orig into each of news.
Tee(n, orig, news) ==
  AIGBV(Aig(Range(Bundle(orig, n)),
            [o \in UNION {Range(Bundle(w, n)) : w \in Range(news)} |->
               In(Bundle(orig, n)[o[Len(o)][3] + 1])],
            EmptyMap, EmptyMap),
        [w \in {orig} |-> n], [w \in Range(news) |-> n], EmptyMap)

(***************************************************************************)
(* Lifting: the word names and sizes rebuilt from indexed bit names.       *)
(***************************************************************************)
IsIndexed(name) == Len(name) >= 2 /\ name[Len(name)][1] = "idx"

\* unpack_name: BV_NAME matches root[idx].
UnpackName(name) == <<SubSeq(name, 1, Len(name) - 1), name[Len(name)][3]>>

\* to_size: the indices are exactly 0 .. n-1.
ToSize(idxs) ==
  IF idxs = {} \/ idxs # 0 .. (Cardinality(idxs) - 1)
  THEN Err("MalformedIndexing") ELSE Ok(Cardinality(idxs))

\* rebundle_names
RebundleNames(names) ==
  IF \E n \in names : ~IsIndexed(n) THEN Err("AttributeError")
  ELSE LET roots == {UnpackName(n)[1] : n \in names}
           idxs(r) == {UnpackName(n)[2] : n \in {m \in names : UnpackName(m)[1] = r}}
       IN IF \E r \in roots : ~ToSize(idxs(r)).ok THEN Err("MalformedIndexing")
          ELSE Ok([r \in roots |-> ToSize(idxs(r)).val])

\* rebundle_aig
RebundleAig(aig) ==
  LET im == RebundleNames(aig.inputs)
      om == RebundleNames(AigOutputs(aig))
      lm == RebundleNames(AigLatches(aig))
  IN IF ~im.ok THEN im ELSE IF ~om.ok THEN om ELSE IF ~lm.ok THEN lm
     ELSE Ok(AIGBV(aig, im.val, om.val, lm.val))

(***************************************************************************)
(* Feedback.                                                               *)
(***************************************************************************)
RECURSIVE Cat(_)
Cat(ss) == IF ss = <<>> THEN <<>> ELSE Head(ss) \o Cat(Tail(ss))

\* aig.feedback(inputs, outputs, initials, latches, keep_outputs) on bit names
AigFeedback(a, ins, outs, initials, lats, keep) ==
  LET inits == IF initials.some THEN initials.val ELSE [j \in 1 .. Len(ins) |-> FALSE]
      in2latch == [b \in Range(ins) |-> LatchIn(lats[Pos(ins, b)])]
      kept == IF keep THEN AigOutputs(a) ELSE AigOutputs(a) \ Range(outs)
  IN IF ~(Len(ins) = Len(outs) /\ Len(outs) = Len(inits) /\ Len(inits) = Len(lats))
     THEN Err("AssertionError")
     ELSE Ok(Aig(a.inputs \ Range(ins),
                 [o \in kept |-> SubstIn(a.node_map[o], in2latch)],
                 [l \in AigLatches(a) |-> SubstIn(a.latch_map[l], in2latch)]
                   @@ [l \in Range(lats) |->
                         SubstIn(a.node_map[outs[Pos(lats, l)]], in2latch)],
                 a.latch2init @@ [l \in Range(lats) |-> inits[Pos(lats, l)]]))

\* AIGBV.feedback: the local blast is fn.lmapcat(bmap.get, vals)
FbBlast(bm, names) == Cat([j \in 1 .. Len(names) |-> Bundle(names[j], bm[names[j]])])

Feedback(c, inputs, outputs, initials, latchesArg, keep_outputs) ==
  LET latches == IF latchesArg.some THEN latchesArg.val ELSE inputs
      pairs == 1 .. (IF Len(inputs) < Len(latches) THEN Len(inputs) ELSE Len(latches))
      lmap == [l \in {latches[j] : j \in pairs} |->
                 c.imap[inputs[CHOOSE j \in pairs : latches[j] = l]]]
  IN IF \E j \in pairs : inputs[j] \notin Inputs(c) THEN Err("UnknownSignal")
     \* bmap.get gives None for an absent name, which lmapcat cannot iterate
     ELSE IF ~(Range(inputs) \subseteq Inputs(c)) \/ ~(Range(outputs) \subseteq Outputs(c))
             \/ ~(Range(latches) \subseteq DOMAIN lmap)
     THEN Err("TypeError")
     ELSE LET g == AigFeedback(c.aig, FbBlast(c.imap, inputs), FbBlast(c.omap, outputs),
                               NoneArg, FbBlast(lmap, latches), keep_outputs)
              circ == IF g.ok THEN RebundleAig(g.val) ELSE g
          IN IF ~circ.ok THEN circ
             \* line 118: dict.update returns None, which line 121 subscripts
             ELSE IF initials.some /\ latches # <<>> THEN Err("TypeError")
             ELSE circ

(***************************************************************************)
(* Parallel composition.  k is the count of fresh names generated so far.  *)
(***************************************************************************)
\* lines 76-79: the fan-out of every shared input, composed in front
RECURSIVE OrTee(_, _, _, _, _)
OrTee(circ, self, shared, relabels1, relabels2) ==
  IF shared = <<>> THEN Ok(circ)
  ELSE LET orig == Head(shared)
           size == BmGet(self.imap, orig)
       IN IF ~size.ok THEN size
          ELSE The({ IF ~next.ok THEN next
                     ELSE OrTee(next.val, self, Tail(shared), relabels1, relabels2)
                   : next \in {Lshift(circ, Tee(size.val, orig,
                                                <<relabels1[orig], relabels2[orig]>>))} })

\* AIGBV.__or__; a failed assertion of lines 61-62 is the InterfaceConflict.
Or(a, b, k) ==
  IF Outputs(a) \cap Outputs(b) # {} THEN Err("InterfaceConflict")
  ELSE IF Latches(a) \cap Latches(b) # {} THEN Err("InterfaceConflict")
  ELSE The({
    LET n == Len(shared)
        relabels1 == [w \in Range(shared) |-> FreshName(k + Pos(shared, w))]
        relabels2 == [w \in Range(shared) |-> FreshName(k + n + Pos(shared, w))]
    IN The({
         The({
           LET im == BmAdd(self.imap, other.imap)
               om == BmAdd(self.omap, other.omap)
               lm == BmAdd(self.lmap, other.lmap)
           IN IF ~g.ok THEN g
              ELSE IF ~im.ok THEN im
              ELSE IF ~om.ok THEN om
              ELSE IF ~lm.ok THEN lm
              ELSE OrTee(AIGBV(g.val, im.val, om.val, lm.val),
                         self, shared, relabels1, relabels2)
           : g \in {AigPar(self.aig, other.aig)} })
         : self \in {IF n > 0 THEN GetItem(a, "i", relabels1).val ELSE a},
           other \in {IF n > 0 THEN GetItem(b, "i", relabels2).val ELSE b} })
    : shared \in {Enum(Inputs(a) \cap Inputs(b))} })

\* The fresh names __or__ draws: two for each shared input, once the
\* assertions of lines 61-62 have passed.
OrFresh(a, b) == 2 * Cardinality(Inputs(a) \cap Inputs(b))
OrUsed(a, b) ==
  IF Outputs(a) \cap Outputs(b) = {} /\ Latches(a) \cap Latches(b) = {}
  THEN OrFresh(a, b) ELSE 0

(***************************************************************************)
(* Unrolling.                                                              *)
(***************************************************************************)
Stamp(names, t) == [n \in names |-> In(n \o <<Time(t)>>)]

\* The latch values entering step t of the unrolled aig, as nodes.
RECURSIVE LatchAt(_, _)
LatchAt(a, t) ==
  IF t = 0 THEN [l \in AigLatches(a) |-> ConstE(a.latch2init[l])]
  ELSE [l \in AigLatches(a) |->
          SubstLatch(SubstIn(a.latch_map[l], Stamp(a.inputs, t - 1)), LatchAt(a, t - 1))]

\* aig.unroll(horizon, init=True, omit_latches=True, only_last_outputs)
AigUnroll(a, horizon, only_last_outputs) ==
  LET steps == IF only_last_outputs THEN {horizon} ELSE 1 .. horizon
      outs == {<<o, t>> : o \in AigOutputs(a), t \in steps}
  IN Aig(UNION {{i \o <<Time(t - 1)>> : i \in a.inputs} : t \in 1 .. horizon},
         [n \in {p[1] \o <<Time(p[2])>> : p \in outs} |->
            LET p == CHOOSE p \in outs : p[1] \o <<Time(p[2])>> = n
            IN SubstLatch(SubstIn(a.node_map[p[1]], Stamp(a.inputs, p[2] - 1)),
                          LatchAt(a, p[2] - 1))],
         EmptyMap, EmptyMap)

\* BV_NAME_TIME matches name[idx]##time_t
IsIndexedTime(name) ==
  /\ Len(name) >= 3
  /\ name[Len(name)][1] = "time"
  /\ name[Len(name) - 1][1] = "idx"

\* shuffle_id_time: name[idx]##time_t becomes name##time_t[idx]
ShuffleKeepOrder(name) == name

ShuffleIdTime(name) ==
  SubSeq(name, 1, Len(name) - 2) \o <<name[Len(name)], name[Len(name) - 1]>>

\* AIGBV.unroll(horizon, only_last_outputs=...)
Unroll(c, horizon, only_last_outputs) ==
  LET aig0 == AigUnroll(c.aig, horizon, only_last_outputs)
      names == aig0.inputs \cup AigOutputs(aig0) \cup AigLatches(aig0)
      aig1 == AigRelabel(aig0, "i", [k \in aig0.inputs |-> ShuffleIdTime(k)])
      aig2 == AigRelabel(aig1, "o", [k \in AigOutputs(aig1) |-> ShuffleIdTime(k)])
      aig3 == AigRelabel(aig2, "l", [k \in AigLatches(aig2) |-> ShuffleIdTime(k)])
  IN IF \E n \in names : ~IsIndexedTime(n) THEN Err("AttributeError")
     ELSE RebundleAig(aig3)

\* common.bitwise_xor(wordlen, left, right, output)
BitwiseXor(n, left, right, output) ==
  AIGBV(Aig(Range(Bundle(left, n)) \cup Range(Bundle(right, n)),
            [o \in Range(Bundle(output, n)) |->
               XorE(In(Bundle(left, n)[o[Len(o)][3] + 1]),
                    In(Bundle(right, n)[o[Len(o)][3] + 1]))],
            EmptyMap, EmptyMap),
        [w \in {left, right} |-> n], [w \in {output} |-> n], EmptyMap)

\* common.repeat(times, input, output): one bit fanned out to times bits
Repeat(n, input, output) ==
  AIGBV(Aig(Range(Bundle(input, 1)),
            [o \in Range(Bundle(output, n)) |-> In(Bundle(input, 1)[1])],
            EmptyMap, EmptyMap),
        [w \in {input} |-> 1], [w \in {output} |-> n], EmptyMap)

(***************************************************************************)
(* Package aigerbv: a word circuit keeps, for each kind, the set of pairs  *)
(* <<word name, tuple of bit names>>.                                      *)
(***************************************************************************)
OldAIGBV(aig, input_map, output_map, latch_map) ==
  [aig |-> aig, input_map |-> input_map, output_map |-> output_map,
   latch_map |-> latch_map]
Pluck0(name_map) == {kv[1] : kv \in name_map}

\* _named_indexes
NamedIndexes(wordlen, root) == [i \in 1 .. wordlen |-> root \o <<Idx(i - 1)>>]

\* _blast: fn.merge of no dictionary is None
OldBlast(bvname2vals, name_map) ==
  IF name_map = {} THEN Ok(NoneArg)
  ELSE IF ~(Pluck0(name_map) \subseteq DOMAIN bvname2vals) THEN Err("KeyError")
  ELSE Ok(Some([b \in UNION {Range(kv[2]) : kv \in name_map} |->
                  LET kv == CHOOSE kv \in name_map : b \in Range(kv[2])
                  IN bvname2vals[kv[1]][Pos(kv[2], b)]]))

\* _unblast: line 23 calls collect, a name the module never defines
OldUnblast(name2vals, name_map) ==
  IF name_map = {} THEN Ok(EmptyMap) ELSE Err("NameError")

\* AIGBV.__rshift__ (aigerbv)
OldRshift(a, b) ==
  LET interface == Pluck0(a.output_map) \cap Pluck0(b.input_map)
      g == AigSeq(a.aig, b.aig)
      input_map2 == {kv \in b.input_map : kv[1] \notin interface}
      output_map2 == {kv \in a.output_map : kv[1] \notin interface}
  IN IF Pluck0(a.latch_map) \cap Pluck0(b.latch_map) # {} THEN Err("InterfaceConflict")
     ELSE IF (Pluck0(a.output_map) \ interface) \cap Pluck0(b.output_map) # {}
     THEN Err("InterfaceConflict")
     ELSE IF ~g.ok THEN g
     ELSE Ok(OldAIGBV(g.val, a.input_map \cup input_map2,
                      output_map2 \cup b.output_map, a.latch_map \cup b.latch_map))

\* AIGBV.__or__ (aigerbv)
OldOr(a, b) ==
  LET g == AigPar(a.aig, b.aig)
  IN IF Pluck0(a.input_map) \cap Pluck0(b.input_map) # {} THEN Err("InterfaceConflict")
     ELSE IF Pluck0(a.output_map) \cap Pluck0(b.output_map) # {}
     THEN Err("InterfaceConflict")
     ELSE IF Pluck0(a.latch_map) \cap Pluck0(b.latch_map) # {}
     THEN Err("InterfaceConflict")
     ELSE IF ~g.ok THEN g
     ELSE Ok(OldAIGBV(g.val, a.input_map \cup b.input_map,
                      a.output_map \cup b.output_map, a.latch_map \cup b.latch_map))

\* AIGBV.__call__ (aigerbv)
OldCall(c, inputs, latches) ==
  LET bi == OldBlast(inputs, c.input_map)
      bl == OldBlast(latches, c.latch_map)
      r == IF bi.val.some
           THEN AigCall(c.aig, bi.val.val, IF bl.val.some THEN bl.val.val ELSE EmptyMap)
           ELSE IF c.aig.inputs # {} THEN Err("TypeError")
           ELSE AigCall(c.aig, EmptyMap, IF bl.val.some THEN bl.val.val ELSE EmptyMap)
  IN IF ~bi.ok THEN bi
     ELSE IF ~bl.ok THEN bl
     ELSE IF ~r.ok THEN r
     ELSE LET outputs == OldUnblast(r.val.out, c.output_map)
              latch_outs == OldUnblast(r.val.lat, c.latch_map)
          IN IF ~outputs.ok THEN outputs
             ELSE IF ~latch_outs.ok THEN latch_outs
             ELSE Ok([out |-> outputs.val, lat |-> latch_outs.val])

\* The same circuit held by package aigerbv (the AIGBV named tuple).
AsNameMaps(c) ==
  OldAIGBV(c.aig,
           {<<w, Bundle(w, c.imap[w])>> : w \in DOMAIN c.imap},
           {<<w, Bundle(w, c.omap[w])>> : w \in DOMAIN c.omap},
           {<<w, Bundle(w, c.lmap[w])>> : w \in DOMAIN c.lmap})

(***************************************************************************)
(* Arithmetic of package aigerbv.                                          *)
(***************************************************************************)
IntToBits(v, n) == [i \in 1 .. n |-> (v \div (2 ^ (i - 1))) % 2 = 1]
RECURSIVE BitsToInt(_)
BitsToInt(bits) ==
  IF bits = <<>> THEN 0 ELSE (IF Head(bits) THEN 1 ELSE 0) + 2 * BitsToInt(Tail(bits))

\* source: the "bits" are the bytes of value.to_bytes(wordlen, 'little'), and
\* common.source makes a true constant of every non-zero one
OldSource(wordlen, value, name) ==
  LET names == NamedIndexes(wordlen, name)
      byte(i) == (value \div (256 ^ (i - 1))) % 256
  IN IF ~(2 ^ wordlen > value) THEN Err("AssertionError")
     ELSE Ok(OldAIGBV(Aig({}, [b \in Range(names) |-> ConstE(byte(Pos(names, b)) # 0)],
                          EmptyMap, EmptyMap),
                      {<<name, names>>}, {<<name, names>>}, {}))

\* _full_adder: the circuit of the aag text, its AND gates by their literal
AagAnds ==
  (8 :> <<4, 2>>) @@ (10 :> <<5, 3>>) @@ (12 :> <<11, 9>>) @@ (14 :> <<12, 6>>)
    @@ (16 :> <<13, 7>>) @@ (18 :> <<17, 15>>) @@ (20 :> <<15, 9>>)
RECURSIVE AagLit(_, _)
AagLit(lit, ins) ==
  IF lit % 2 = 1 THEN Not(AagLit(lit - 1, ins))
  ELSE IF lit \in DOMAIN ins THEN In(ins[lit])
  ELSE And(AagLit(AagAnds[lit][1], ins), AagLit(AagAnds[lit][2], ins))
FullAdder(x, y, carry_in, result, carry_out) ==
  LET ins == (2 :> x) @@ (4 :> y) @@ (6 :> carry_in)
  IN Aig({x, y, carry_in},
         (result :> AagLit(18, ins)) @@ (carry_out :> AagLit(21, ins)),
         EmptyMap, EmptyMap)

\* adder: lines 184-191, the chain of full adders over the first i bits
RECURSIVE AdderChain(_, _, _, _, _)
AdderChain(i, lefts, rights, outputs, carry_name) ==
  IF i = 0
  THEN Aig({}, (carry_name :> ConstFalse), EmptyMap, EmptyMap)
  ELSE AigSeq(AdderChain(i - 1, lefts, rights, outputs, carry_name),
              FullAdder(lefts[i], rights[i], carry_name, outputs[i], carry_name)).val

\* adder: the bit names are indexed from the literal roots of lines 180-182
OldAdder(wordlen, output, left, right, has_carry) ==
  LET carry_name == output \o <<Txt("_carry")>>
      lefts == NamedIndexes(wordlen, W("left"))
      rights == NamedIndexes(wordlen, W("right"))
      outputs == NamedIndexes(wordlen, W("output"))
      chain == AdderChain(wordlen, lefts, rights, outputs, carry_name)
      sink == Aig({carry_name}, EmptyMap, EmptyMap, EmptyMap)
  IN IF left = carry_name \/ right = carry_name THEN Err("AssertionError")
     ELSE Ok(OldAIGBV(IF has_carry THEN chain ELSE AigSeq(chain, sink).val,
                      {<<left, lefts>>, <<right, rights>>}, {<<output, outputs>>}, {}))

\* subtractor: line 205 calls negater, a name the module never defines
OldSubtractor(wordlen, output, left, right, has_carry) == Err("NameError")

(***************************************************************************)
(* Gates of aiger_bv/common.py used by the expressions.                    *)
(***************************************************************************)
InBits(name, n) == [i \in 1 .. n |-> In(Bundle(name, n)[i])]
NotBits(bits) == [i \in DOMAIN bits |-> Not(bits[i])]
Maj(a, b, c) == OrE(And(a, b), And(c, XorE(a, b)))
RECURSIVE CarryInto(_, _, _, _)
CarryInto(as, bs, cin, i) ==
  IF i = 1 THEN cin ELSE Maj(as[i - 1], bs[i - 1], CarryInto(as, bs, cin, i - 1))
SumBit(as, bs, cin, i) == XorE(XorE(as[i], bs[i]), CarryInto(as, bs, cin, i))
RECURSIVE OrAll(_)
OrAll(es) == IF Len(es) = 1 THEN es[1] ELSE OrE(Head(es), OrAll(Tail(es)))

\* add_gate, subtract_gate, bitwise_and, bitwise_or, bitwise_xor, ne_gate,
\* unsigned_le_gate, unsigned_ge_gate (wordlen, output, left, right)
BinGate(g, n, output, left, right) ==
  LET as == InBits(left, n)
      bs == InBits(right, n)
      size == IF g \in {"ne", "le", "ge"} THEN 1 ELSE n
      node(j) ==
        CASE g = "add" -> SumBit(as, bs, ConstFalse, j)
          [] g = "sub" -> SumBit(as, NotBits(bs), ConstE(TRUE), j)
          [] g = "and" -> And(as[j], bs[j])
          [] g = "or" -> OrE(as[j], bs[j])
          [] g = "xor" -> XorE(as[j], bs[j])
          [] g = "ne" -> OrAll([i \in 1 .. n |-> XorE(as[i], bs[i])])
          [] g = "le" -> CarryInto(bs, NotBits(as), ConstE(TRUE), n + 1)
          [] g = "ge" -> CarryInto(as, NotBits(bs), ConstE(TRUE), n + 1)
  IN AIGBV(Aig(Range(Bundle(left, n)) \cup Range(Bundle(right, n)),
               [o \in Range(Bundle(output, size)) |-> node(o[Len(o)][3] + 1)],
               EmptyMap, EmptyMap),
           [w \in {left, right} |-> n], [w \in {output} |-> size], EmptyMap)

\* The value the operator has on n-bit operands, as bits.
BinValue(g, n, a, b) ==
  CASE g = "add" -> IntToBits((a + b) % (2 ^ n), n)
    [] g = "sub" -> IntToBits((a - b + 2 ^ n) % (2 ^ n), n)
    [] g = "and" -> [i \in 1 .. n |-> IntToBits(a, n)[i] /\ IntToBits(b, n)[i]]
    [] g = "or" -> [i \in 1 .. n |-> IntToBits(a, n)[i] \/ IntToBits(b, n)[i]]
    [] g = "xor" -> [i \in 1 .. n |-> IntToBits(a, n)[i] # IntToBits(b, n)[i]]
    [] g = "ne" -> <<a # b>>
    [] g = "le" -> <<a <= b>>
    [] g = "ge" -> <<a >= b>>

\* common.source(wordlen, value, name, signed): the constant, as n bits
Source(n, value, name) ==
  AIGBV(Aig({}, [o \in Range(Bundle(name, n)) |->
                  ConstE(IntToBits(value % (2 ^ n), n)[o[Len(o)][3] + 1])],
            EmptyMap, EmptyMap),
        EmptyMap, [w \in {name} |-> n], EmptyMap)

\* common.sink(wordlen, inputs)
Sink(n, inputs) ==
  AIGBV(Aig(UNION {Range(Bundle(w, n)) : w \in inputs}, EmptyMap, EmptyMap, EmptyMap),
        [w \in inputs |-> n], EmptyMap, EmptyMap)

\* common.index_gate(wordlen, idx, input, output): bit idx of the input word
IndexGate(n, idx, input, output) ==
  AIGBV(Aig(Range(Bundle(input, n)),
            [o \in Range(Bundle(output, 1)) |-> In(Bundle(input, n)[idx + 1])],
            EmptyMap, EmptyMap),
        [w \in {input} |-> n], [w \in {output} |-> 1], EmptyMap)

(***************************************************************************)
(* Expressions (aiger_bv/expr.py).  An expression holds a word circuit; obj *)
(* is the identity of that circuit object (AIGBV is declared eq=False, so   *)
(* == on circuits is identity).  Every function that draws fresh names      *)
(* returns its result together with the count of names drawn so far.        *)
(***************************************************************************)
MkExpr(c, signed, obj) == [aigbv |-> c, signed |-> signed, obj |-> obj]
IsExpr(v) == "signed" \in DOMAIN v
R(r, k) == [res |-> r, fresh |-> k]

\* UnsignedBVExpr.output, .size, .inputs: an expression held in the place of
\* the circuit has no outputs and no omap attribute
ExprOutput(e) ==
  IF IsExpr(e.aigbv) THEN Err("AttributeError")
  ELSE Ok(CHOOSE w \in Outputs(e.aigbv) : TRUE)
ExprSize(e) ==
  IF IsExpr(e.aigbv) THEN Err("AttributeError")
  ELSE Ok(e.aigbv.omap[CHOOSE w \in Outputs(e.aigbv) : TRUE])
RECURSIVE ExprInputs(_)
ExprInputs(e) == IF IsExpr(e.aigbv) THEN ExprInputs(e.aigbv) ELSE Inputs(e.aigbv)

\* UnsignedBVExpr.__call__
ExprCall(e, inputs) ==
  IF IsExpr(e.aigbv) THEN Err("AttributeError")
  ELSE LET r == Call(e.aigbv, inputs, EmptyMap)
       IN IF ~r.ok THEN r ELSE Ok(r.val.out[ExprOutput(e).val])

\* The val argument of atom: None, a name, or an integer.
NoneVal == [kind |-> "none", name |-> <<>>, int |-> 0]
StrVal(name) == [kind |-> "str", name |-> name, int |-> 0]
IntVal(v) == [kind |-> "int", name |-> <<>>, int |-> v]

\* atom(wordlen, val, signed)
Atom(wordlen, val, signed, k, obj) ==
  LET output == FreshName(k + 1)
      name == IF val.kind = "none" THEN FreshName(k + 2) ELSE val.name
      aig == IF val.kind = "int" THEN Source(wordlen, val.int, output)
             ELSE IdentityGate(wordlen, name, output)
  IN [e |-> MkExpr(aig, signed, obj),
      fresh |-> IF val.kind = "none" THEN k + 2 ELSE k + 1]

\* constk(k, size)(expr): the source takes its default name, x
ConstK(c, size, expr, k) ==
  LET sz == IF size.some THEN size.val ELSE ExprSize(expr).val
  IN The({ Or(source, sink, k)
         : source \in {Source(sz, c, W("x"))},
           sink \in {Sink(ExprSize(expr).val, ExprInputs(expr))} })

\* The same_circ argument each operator hands to _binary_gate (lines 94-125):
\* lambda x: x for + & |, a constant for the others.
SameCirc(g, expr1, k) ==
  CASE g \in {"add", "and", "or"} -> Ok(expr1)
    [] g \in {"sub", "xor"} -> ConstK(0, NoneArg, expr1, k)
    [] g = "ne" -> ConstK(0, Some(1), expr1, k)
    [] g \in {"le", "ge"} -> ConstK(1, Some(1), expr1, k)

\* with_output / _fresh_output
WithOutput(e, val) ==
  The({ IF ~c.ok THEN c ELSE Ok(MkExpr(c.val, e.signed, 0))
      : c \in {GetItem(e.aigbv, "o", [w \in {ExprOutput(e).val} |-> val])} })

\* _binary_gate(gate, expr1, expr2, same_circ); y is an expression or an int
BinaryGate(g, expr1, y, k) ==
  LET size1 == ExprSize(expr1)
  IN IF ~size1.ok THEN R(size1, k)
     ELSE The({
       LET expr2 == a2.e
           k1 == a2.fresh
           size2 == ExprSize(expr2)
           overlap == AigOutputs(expr1.aigbv.aig) \cap AigOutputs(expr2.aigbv.aig) # {}
           k2 == IF overlap THEN k1 + 1 ELSE k1
       IN IF ~size2.ok THEN R(size2, k1)
          ELSE IF size1.val # size2.val THEN R(Err("WidthMismatch"), k1)
          ELSE IF expr1.obj = expr2.obj
          THEN The({ R(IF ~c.ok THEN c ELSE Ok(MkExpr(c.val, expr1.signed, 0)), k1)
                   : c \in {SameCirc(g, expr1, k1)} })
          ELSE The({
            IF ~e2.ok THEN R(e2, k2)
            ELSE LET k3 == k2 + OrUsed(expr1.aigbv, e2.val.aigbv)
                 IN The({
                      IF ~circ3.ok THEN R(circ3, k3)
                      ELSE The({
                        The({ R(IF ~c.ok THEN c ELSE Ok(MkExpr(c.val, expr1.signed, 0)),
                                k3 + 1)
                            : c \in {Rshift(circ3.val, gate)} })
                        : gate \in {BinGate(g, size1.val, FreshName(k3 + 1),
                                            ExprOutput(expr1).val,
                                            ExprOutput(e2.val).val)} })
                      : circ3 \in {Or(expr1.aigbv, e2.val.aigbv, k2)} })
            : e2 \in {IF overlap THEN WithOutput(expr2, FreshName(k1 + 1))
                      ELSE Ok(expr2)} })
       : a2 \in {IF y.isint THEN Atom(size1.val, IntVal(y.int), expr1.signed, k, 0)
                 ELSE [e |-> y.e, fresh |-> k]} })

\* An index: an int, or slice(start, stop, step) with None for what is left out.
NoInt == [some |-> FALSE, val |-> 0]
IntIdx(i) == [isslice |-> FALSE, start |-> Some(i), stop |-> NoInt, step |-> NoInt]
Slice(start, stop, step) == [isslice |-> TRUE, start |-> start, stop |-> stop, step |-> step]

\* lines 50-51: reduce over the lazily mapped _indexer, each drawing its name
RECURSIVE ReduceOr(_, _, _, _, _)
ReduceOr(acc, rest, size, output, k) ==
  IF rest = <<>> THEN R(Ok(acc), k)
  ELSE The({
    LET k2 == k + 1 + OrUsed(acc, y)
    IN The({ IF ~r.ok THEN R(r, k2)
             ELSE ReduceOr(r.val, Tail(rest), size, output, k2)
           : r \in {Or(acc, y, k + 1)} })
    : y \in {IndexGate(size, Head(rest), output, FreshName(k + 1))} })

\* UnsignedBVExpr.__getitem__; lines 38 and 40 rebuild the slice without its step
ExprGetItem(e, idx, k) ==
  LET size == ExprSize(e).val
      output == ExprOutput(e).val
      s1 == IF ~idx.isslice THEN Slice(idx.start, Some(idx.start.val + 1), NoInt) ELSE idx
      s2 == IF ~s1.start.some THEN Slice(Some(0), s1.stop, NoInt) ELSE s1
      s3 == IF ~s2.stop.some THEN Slice(s2.start, Some(size), NoInt) ELSE s2
      start == s3.start.val
      stop == s3.stop.val
      indicies == [j \in 1 .. (stop - start) |-> start + j - 1]
  IN IF s3.step.some THEN R(Err("NotImplementedError"), k)
     ELSE IF ~(0 <= start /\ start < stop /\ stop <= size) THEN R(Err("AssertionError"), k)
     ELSE The({
       IF Len(indicies) = 1
       THEN The({ R(IF ~c.ok THEN c ELSE Ok(MkExpr(c.val, FALSE, 0)), k + 1)
                : c \in {Rshift(e.aigbv, first)} })
       ELSE The({
         IF ~indexer.res.ok THEN indexer
         ELSE The({ R(IF ~c.ok THEN c ELSE Ok(MkExpr(c.val, FALSE, 0)), indexer.fresh)
                  : c \in {Rshift(e.aigbv, indexer.res.val)} })
         : indexer \in {ReduceOr(first, Tail(indicies), size, output, k + 1)} })
       : first \in {IndexGate(size, indicies[1], output, FreshName(k + 1))} })

(***************************************************************************)
(* The circuits the model composes: gates of every width up to MaxWidth,   *)
(* and the sequential circuits feedback makes of them.                     *)
(***************************************************************************)
Widths == 1 .. MaxWidth
Names == {W("x"), W("y"), W("z")}
EmptyCirc == AIGBV(EmptyAig, EmptyMap, EmptyMap, EmptyMap)

Gates ==
  {BitwiseNegate(n, i, o) : n \in Widths, i \in Names, o \in Names}
    \cup {BitwiseXor(1, W("x"), W("y"), W("z")), BitwiseXor(1, W("y"), W("z"), W("x"))}
    \cup {Repeat(n, W("x"), o) : n \in Widths, o \in {W("x"), W("y")}}

Sequential ==
  {Feedback(BitwiseXor(n, W("x"), W("y"), W("z")), <<W("x")>>, <<W("z")>>,
            NoneArg, l, TRUE).val : n \in Widths, l \in {NoneArg, Some(<<W("q")>>)}}
    \cup {Feedback(BitwiseNegate(n, W("y"), W("x")), <<W("y")>>, <<W("x")>>,
                   NoneArg, NoneArg, TRUE).val : n \in Widths}
    \cup {Feedback(BitwiseXor(n, W("x"), W("y"), W("z")), <<W("x")>>, <<W("z")>>,
                   NoneArg, NoneArg, FALSE).val : n \in Widths}

Lib == Gates \cup Sequential

\* The relabelings tried: injective maps of one or two word names.
Targets == Names \cup {W("q")}
Relabelings ==
  {[w \in {s} |-> t] : s \in {W("x"), W("y")}, t \in Targets}
    \cup {(W("x") :> p[1]) @@ (W("y") :> p[2]) :
            p \in {p \in Targets \X {W("q"), W("x")} : p[1] # p[2]}}

\* Word values: bit tuples, least significant bit first.
WordVals(n) == [1 .. n -> BOOLEAN]

AllVals == UNION {WordVals(n) : n \in Widths}
\* The assignments of a bit tuple of its size to every word of bm.
WordAssign(bm) == {f \in [DOMAIN bm -> AllVals] : \A w \in DOMAIN bm : Len(f[w]) = bm[w]}

VARIABLES
  op,     \* the last operation
  A, B,   \* the operand circuits
  X, Y,   \* the operand expressions
  arg,    \* the operation's other arguments
  res,    \* its result
  fresh   \* the fresh names generated so far (common._fresh)

vars == <<op, A, B, X, Y, arg, res, fresh>>

MaxFresh == 6
MaxIndex == MaxWidth + 1
NoArg == [kind |-> "none"]
NoExpr == MkExpr(EmptyCirc, FALSE, 0)
NoOperand == [isint |-> FALSE, e |-> NoExpr]

Init ==
  /\ op = "init"
  /\ A = EmptyCirc
  /\ B = EmptyCirc
  /\ X = NoExpr
  /\ Y = NoOperand
  /\ arg = NoArg
  /\ res = Err("none")
  /\ fresh = 0

\* The caller holds two circuits (the second may be the empty circuit).
Load ==
  /\ op = "init"
  /\ \E a \in Lib, b \in Lib \cup {EmptyCirc} : A' = a /\ B' = b
  /\ op' = "load"
  /\ arg' = NoArg
  /\ res' = Err("none")
  /\ UNCHANGED <<X, Y, fresh>>

\* A >> B
DoRshift ==
  /\ op = "load"
  /\ op' = "rshift"
  /\ res' = Rshift(A, B)
  /\ UNCHANGED <<A, B, X, Y, arg, fresh>>

\* A | B
DoOr ==
  /\ op = "load"
  /\ fresh + OrFresh(A, B) <= MaxFresh
  /\ op' = "or"
  /\ res' = Or(A, B, fresh)
  /\ fresh' = fresh + OrUsed(A, B)
  /\ UNCHANGED <<A, B, X, Y, arg>>

\* A >> B and A | B in package aigerbv
DoOldRshift ==
  /\ op = "load"
  /\ op' = "old_rshift"
  /\ res' = OldRshift(AsNameMaps(A), AsNameMaps(B))
  /\ UNCHANGED <<A, B, X, Y, arg, fresh>>

DoOldOr ==
  /\ op = "load"
  /\ op' = "old_or"
  /\ res' = OldOr(AsNameMaps(A), AsNameMaps(B))
  /\ UNCHANGED <<A, B, X, Y, arg, fresh>>

\* A[kind, relabels]
DoGetItem ==
  /\ op = "load" /\ B = EmptyCirc
  /\ \E kind \in {"i", "o", "l", "x"}, r \in Relabelings :
       /\ arg' = [kind |-> kind, relabels |-> r]
       /\ res' = GetItem(A, kind, r)
  /\ op' = "getitem"
  /\ UNCHANGED <<A, B, X, Y, fresh>>

\* A.feedback(inputs=[i], outputs=[o], initials, latches, keep_outputs)
DoFeedback ==
  /\ op = "load" /\ B = EmptyCirc
  /\ \E i \in Inputs(A), o \in Outputs(A), keep \in BOOLEAN,
        l \in {NoneArg} \cup (IF W("q") \in Latches(A) THEN {} ELSE {Some(<<W("q")>>)}) :
     \E init \in {NoneArg, Some(<<NoneArg>>)}
                 \cup {Some(<<Some(v)>>) : v \in WordVals(A.imap[i])} :
       /\ arg' = [kind |-> "feedback", inputs |-> <<i>>, outputs |-> <<o>>,
                  initials |-> init, latches |-> l, keep_outputs |-> keep]
       /\ res' = Feedback(A, <<i>>, <<o>>, init, l, keep)
  /\ op' = "feedback"
  /\ UNCHANGED <<A, B, X, Y, fresh>>

\* A.unroll(horizon, only_last_outputs=...)
DoUnroll ==
  /\ op = "load" /\ B = EmptyCirc
  /\ \E h \in 1 .. MaxHorizon, last \in BOOLEAN :
       /\ arg' = [kind |-> "unroll", horizon |-> h, only_last_outputs |-> last]
       /\ res' = Unroll(A, h, last)
  /\ op' = "unroll"
  /\ UNCHANGED <<A, B, X, Y, fresh>>

\* unblast(m, blast(m, v)) on A's input map m, in either package
DoRoundTrip ==
  /\ op = "load" /\ B = EmptyCirc
  /\ \E v \in WordAssign(A.imap) :
       LET bits == BmBlast(A.imap, v)
       IN /\ arg' = [kind |-> "roundtrip", v |-> v, bits |-> bits]
          /\ res' = IF bits.ok THEN Ok(BmUnblast(A.imap, bits.val)) ELSE bits
  /\ op' = "roundtrip"
  /\ UNCHANGED <<A, B, X, Y, fresh>>

DoOldRoundTrip ==
  /\ op = "load" /\ B = EmptyCirc
  /\ \E v \in WordAssign(A.imap) :
       LET m == AsNameMaps(A).input_map
           bits == OldBlast(v, m)
       IN /\ arg' = [kind |-> "roundtrip", v |-> v, bits |-> bits]
          /\ res' = IF ~bits.ok THEN bits
                    ELSE OldUnblast(IF bits.val.some THEN bits.val.val ELSE EmptyMap, m)
  /\ op' = "old_roundtrip"
  /\ UNCHANGED <<A, B, X, Y, fresh>>

\* A(inputs), from the initial latch values, in either package
DoCall ==
  /\ op = "load" /\ B = EmptyCirc
  /\ \E v \in WordAssign(A.imap) :
       /\ arg' = [kind |-> "call", v |-> v]
       /\ res' = Call(A, v, EmptyMap)
  /\ op' = "call"
  /\ UNCHANGED <<A, B, X, Y, fresh>>

DoOldCall ==
  /\ op = "load" /\ B = EmptyCirc
  /\ \E v \in WordAssign(A.imap) :
       /\ arg' = [kind |-> "call", v |-> v]
       /\ res' = OldCall(AsNameMaps(A), v, EmptyMap)
  /\ op' = "old_call"
  /\ UNCHANGED <<A, B, X, Y, fresh>>

\* The caller drops the operands and the result; the fresh names stay used.
Release ==
  /\ op \notin {"init", "load"}
  /\ op' = "init"
  /\ A' = EmptyCirc
  /\ B' = EmptyCirc
  /\ X' = NoExpr
  /\ Y' = NoOperand
  /\ arg' = NoArg
  /\ res' = Err("none")
  /\ UNCHANGED fresh

Next ==
  \/ Load
  \/ Release
  \/ DoRshift
  \/ DoOr
  \/ DoOldRshift
  \/ DoOldOr
  \/ DoGetItem
  \/ DoFeedback
  \/ DoUnroll
  \/ DoRoundTrip
  \/ DoOldRoundTrip
  \/ DoCall
  \/ DoOldCall

Spec == Init /\ [][Next]_vars

(***************************************************************************)
(* The arithmetic: the caller builds expressions and applies an operator   *)
(* or an index, or evaluates an adder of package aigerbv on two constants. *)
(***************************************************************************)
BinOps == {"add", "sub", "and", "or", "xor", "ne", "le", "ge"}
AtomVals(n) == {StrVal(W("a")), NoneVal} \cup {IntVal(v) : v \in 0 .. (2 ^ n - 1)}
Indexes ==
  {IntIdx(i) : i \in -1 .. MaxIndex}
    \cup {Slice(a, b, s) : a \in {NoInt} \cup {Some(i) : i \in -1 .. MaxWidth},
                          b \in {NoInt} \cup {Some(i) : i \in 0 .. MaxIndex},
                          s \in {NoInt, Some(1), Some(2)}}

\* x = atom(n, val, signed=False), and y: x itself, another atom, or an int
LoadExpr ==
  /\ op = "init"
  /\ fresh + 4 <= MaxFresh
  /\ \E n \in Widths : \E val \in AtomVals(n) :
       LET x == Atom(n, val, FALSE, fresh, 1)
       IN /\ X' = x.e
          /\ \/ Y' = [isint |-> FALSE, e |-> x.e] /\ fresh' = x.fresh
             \/ \E m \in Widths :
                  \E val2 \in {StrVal(W("a")), StrVal(W("b"))} \cup {IntVal(v) : v \in 0 .. (2 ^ m - 1)} :
                    LET y == Atom(m, val2, FALSE, x.fresh, 2)
                    IN Y' = [isint |-> FALSE, e |-> y.e] /\ fresh' = y.fresh
             \/ \E v \in 0 .. (2 ^ n - 1) :
                  Y' = [isint |-> TRUE, int |-> v] /\ fresh' = x.fresh
  /\ op' = "loadexpr"
  /\ arg' = NoArg
  /\ res' = Err("none")
  /\ UNCHANGED <<A, B>>

\* X op Y
DoBinOp ==
  /\ op = "loadexpr"
  /\ \E g \in BinOps :
     \E r \in {BinaryGate(g, X, Y, fresh)} :
          /\ r.fresh <= MaxFresh
          /\ arg' = [kind |-> "binop", g |-> g]
          /\ res' = r.res
          /\ fresh' = r.fresh
  /\ op' = "binop"
  /\ UNCHANGED <<A, B, X, Y>>

\* X[idx]
DoExprGetItem ==
  /\ op = "loadexpr"
  /\ ~Y.isint /\ Y.e = X
  /\ \E idx \in Indexes :
     \E r \in {ExprGetItem(X, idx, fresh)} :
          /\ r.fresh <= MaxFresh
          /\ arg' = [kind |-> "index", idx |-> idx]
          /\ res' = r.res
          /\ fresh' = r.fresh
  /\ op' = "index"
  /\ UNCHANGED <<A, B, X, Y>>

\* ((source(n, a, 'x') | source(n, b, 'y')) >> adder(n, 'out', 'x', 'y'))({})
\* and the same of subtractor, in package aigerbv
DoOldAdder ==
  /\ op = "init"
  /\ \E n \in Widths, sub \in BOOLEAN, has_carry \in BOOLEAN :
     \E a \in 0 .. (2 ^ n - 1), b \in 0 .. (2 ^ n - 1) :
       LET sx == OldSource(n, a, W("x"))
           sy == OldSource(n, b, W("y"))
           par == IF ~sx.ok THEN sx ELSE IF ~sy.ok THEN sy ELSE OldOr(sx.val, sy.val)
           gate == IF sub THEN OldSubtractor(n, W("out"), W("x"), W("y"), has_carry)
                   ELSE OldAdder(n, W("out"), W("x"), W("y"), has_carry)
           circ == IF ~par.ok THEN par ELSE IF ~gate.ok THEN gate
                   ELSE OldRshift(par.val, gate.val)
       IN /\ arg' = [kind |-> "old_adder", wordlen |-> n, sub |-> sub,
                     has_carry |-> has_carry, a |-> a, b |-> b, circ |-> circ]
          /\ res' = IF ~circ.ok THEN circ ELSE OldCall(circ.val, EmptyMap, EmptyMap)
  /\ op' = "old_adder"
  /\ UNCHANGED <<A, B, X, Y, fresh>>

NextArith ==
  \/ LoadExpr
  \/ Release
  \/ DoBinOp
  \/ DoExprGetItem
  \/ DoOldAdder

SpecArith == Init /\ [][NextArith]_vars

(***************************************************************************)
(* Sequential composition.                                                 *)
(***************************************************************************)
Interface == Outputs(A) \cap Inputs(B)
RshiftPre ==
  /\ Latches(A) \cap Latches(B) = {}
  /\ (Outputs(A) \ Interface) \cap Outputs(B) = {}
\* The maps the specification gives the result of A >> B.
RshiftMaps(c) ==
  /\ Inputs(c) = Inputs(A) \cup (Inputs(B) \ Interface)
  /\ Outputs(c) = Outputs(B) \cup (Outputs(A) \ Interface)
  /\ Latches(c) = Latches(A) \cup Latches(B)
  /\ \A w \in Inputs(c) : c.imap[w] = IF w \in Inputs(A) THEN A.imap[w] ELSE B.imap[w]
  /\ \A w \in Outputs(c) : c.omap[w] = IF w \in Outputs(B) THEN B.omap[w] ELSE A.omap[w]
  /\ \A w \in Latches(c) : c.lmap[w] = IF w \in Latches(A) THEN A.lmap[w] ELSE B.lmap[w]

\* The same of a result of package aigerbv.
OldWidth(kv, m1, m2) == Len(kv[2]) = IF kv[1] \in DOMAIN m1 THEN m1[kv[1]] ELSE m2[kv[1]]
OldRshiftMaps(c) ==
  /\ Pluck0(c.input_map) = Inputs(A) \cup (Inputs(B) \ Interface)
  /\ Pluck0(c.output_map) = Outputs(B) \cup (Outputs(A) \ Interface)
  /\ Pluck0(c.latch_map) = Latches(A) \cup Latches(B)
  /\ \A kv \in c.input_map : OldWidth(kv, A.imap, B.imap)
  /\ \A kv \in c.output_map : OldWidth(kv, B.omap, A.omap)
  /\ \A kv \in c.latch_map : OldWidth(kv, A.lmap, B.lmap)
RshiftAsSpecified ==
  /\ res.ok
  /\ IF op = "rshift" THEN RshiftMaps(res.val) ELSE OldRshiftMaps(res.val)

\* C1 as claimed: under the stated precondition alone (latches disjoint, no
\* output of A outside the interface is an output of B) A >> B succeeds with
\* inputs(A) + (inputs(B) - interface), outputs(B) + (outputs(A) - interface)
\* and latches(A) + latches(B), every word at its operand's width.
C1_AsClaimed ==
  (op \in {"rshift", "old_rshift"} /\ RshiftPre) => RshiftAsSpecified

\* What the bit level adds: an interface word A drives wider than B reads
\* leaves bits of A's word as outputs, which B must not drive as well.
BitInterface == AigOutputs(A.aig) \cap B.aig.inputs
RshiftBitPre == (AigOutputs(A.aig) \ BitInterface) \cap AigOutputs(B.aig) = {}

\* C1 as amended: when moreover no input of A is an input of B outside the
\* interface, and no bit of A's outputs left over at the interface is a bit
\* B outputs, A >> B succeeds with the maps claimed.
C1_RshiftMaps ==
  (op \in {"rshift", "old_rshift"} /\ RshiftPre
     /\ Inputs(A) \cap (Inputs(B) \ Interface) = {} /\ RshiftBitPre)
    => RshiftAsSpecified

C1_Witness ==
  /\ op = "rshift" /\ RshiftPre /\ res.ok
  /\ Interface # {}
  /\ Outputs(A) \ Interface # {} \/ Latches(A) # {}
  /\ Inputs(B) \ Interface # {} \/ Latches(B) # {}

\* C3: A >> B raises the InterfaceConflict of lines 50-51 whenever the latches
\* overlap or an output of A that B does not consume is an output of B; A | B
\* raises that of lines 61-62 whenever the outputs or the latches overlap; no
\* circuit is returned, and the operands are the ones the caller passed.
C3_Fails ==
  /\ (op = "rshift" /\ ~RshiftPre) => (~res.ok /\ res.err = "InterfaceConflict")
  /\ (op = "or" /\ (Outputs(A) \cap Outputs(B) # {} \/ Latches(A) \cap Latches(B) # {}))
       => (~res.ok /\ res.err = "InterfaceConflict")
\* C3, with the frame: always, a composition outside its precondition has
\* raised the InterfaceConflict, and a failing A >> B or A | B leaves A and B
\* as they were.
C3_NoSilentShadowing ==
  /\ []C3_Fails
  /\ [][(op' \in {"rshift", "or"} /\ ~res'.ok) => (A' = A /\ B' = B)]_vars

C3_Witness ==
  /\ op = "rshift" /\ ~res.ok
  /\ Latches(A) \cap Latches(B) = {}
  /\ (Outputs(A) \ Interface) \cap Outputs(B) # {}

(***************************************************************************)
(* Relabeling.                                                             *)
(***************************************************************************)
KindMap(c, kind) == CASE kind = "i" -> c.imap [] kind = "o" -> c.omap [] kind = "l" -> c.lmap
KindBits(c, kind) ==
  CASE kind = "i" -> c.aig.inputs
    [] kind = "o" -> AigOutputs(c.aig)
    [] kind = "l" -> AigLatches(c.aig)

\* C4: A[kind, relabels] raises the NameCollision when a target is already a
\* word of that kind; otherwise the result's words of that kind are A's with
\* every present source replaced by its target at the same size, absent
\* sources change nothing, the other two kinds keep their maps, and the bit
\* names of that kind in the underlying circuit are those of the new map.
C4_AsClaimed ==
  (op = "getitem" /\ arg.kind \in {"i", "o", "l"}) =>
    LET bm1 == KindMap(A, arg.kind)
        r == arg.relabels
    IN IF Range(r) \cap DOMAIN bm1 # {}
       THEN ~res.ok /\ res.err = "NameCollision"
       ELSE /\ res.ok
            /\ LET bm2 == KindMap(res.val, arg.kind)
               IN /\ DOMAIN bm2 = {Ren(r, w) : w \in DOMAIN bm1}
                  /\ \A w \in DOMAIN bm1 : bm2[Ren(r, w)] = bm1[w]
                  /\ KindBits(res.val, arg.kind) = BmBits(bm2)
            /\ \A k \in {"i", "o", "l"} \ {arg.kind} :
                 /\ KindMap(res.val, k) = KindMap(A, k)
                 /\ KindBits(res.val, k) = KindBits(A, k)

(***************************************************************************)
(* Parallel composition.                                                   *)
(***************************************************************************)
SharedInputs == Inputs(A) \cap Inputs(B)
\* C2: with disjoint outputs and latches and shared inputs S (of one width in
\* both operands), A | B succeeds; its inputs are inputs(A) + inputs(B), each
\* shared name once at its width and no fresh name among them; and on every
\* assignment each output has the value its own operand gives it.
C2_AsClaimed ==
  (/\ op \in {"or", "old_or"}
   /\ Outputs(A) \cap Outputs(B) = {} /\ Latches(A) \cap Latches(B) = {}
   /\ SharedInputs # {} /\ \A w \in SharedInputs : A.imap[w] = B.imap[w])
  => /\ res.ok
     /\ op = "old_or" =>
          /\ Pluck0(res.val.input_map) = Inputs(A) \cup Inputs(B)
          /\ \A kv \in res.val.input_map : OldWidth(kv, A.imap, B.imap)
     /\ op = "or" =>
          /\ Inputs(res.val) = Inputs(A) \cup Inputs(B)
          /\ \A w \in Inputs(res.val) :
               res.val.imap[w] = IF w \in Inputs(A) THEN A.imap[w] ELSE B.imap[w]
          /\ \A v \in WordAssign(res.val.imap) :
               LET r == Call(res.val, v, EmptyMap).val.out
                   ra == Call(A, Restrict(v, Inputs(A)), EmptyMap).val.out
                   rb == Call(B, Restrict(v, Inputs(B)), EmptyMap).val.out
               IN \A w \in Outputs(A) \cup Outputs(B) :
                    r[w] = IF w \in Outputs(A) THEN ra[w] ELSE rb[w]

(***************************************************************************)
(* Feedback.                                                               *)
(***************************************************************************)
FbInput == arg.inputs[1]
FbOutput == arg.outputs[1]
FbLatch == IF arg.latches.some THEN arg.latches.val[1] ELSE FbInput
\* The initial value asked of bit j of the new latch (the default is false).
FbInitial(j) ==
  IF arg.initials.some /\ arg.initials.val[1].some
  THEN arg.initials.val[1].val[j] ELSE FALSE

\* The result is the circuit the specification describes: one new latch of
\* the input's size, the input gone, the latch starting at its initial value
\* and taking, at every step, the value of the paired output.
FeedbackAsSpecified(c) ==
  /\ Latches(c) = Latches(A) \cup {FbLatch}
  /\ c.lmap[FbLatch] = A.imap[FbInput]
  /\ Inputs(c) = Inputs(A) \ {FbInput}
  /\ \A j \in 1 .. A.imap[FbInput] :
       c.aig.latch2init[Bundle(FbLatch, A.imap[FbInput])[j]] = FbInitial(j)
  /\ \A iv \in WordAssign(c.imap), lv \in WordAssign(c.lmap) :
       Call(c, iv, lv).val.lat[FbLatch]
         = Call(A, iv @@ (FbInput :> lv[FbLatch]), Restrict(lv, Latches(A))).val.out[FbOutput]

\* C5: feedback on paired bundles of one size returns that circuit, whatever
\* initials (omitted, None entries, or values) the caller gives.
C5_AsClaimed ==
  (op = "feedback" /\ A.imap[FbInput] = A.omap[FbOutput])
    => (res.ok /\ FeedbackAsSpecified(res.val))

(***************************************************************************)
(* Unrolling.                                                              *)
(***************************************************************************)
TimeName(w, t) == w \o <<Time(t)>>
\* Step t (from 0) of the step-by-step evaluation of c on the inputs ivs.
RECURSIVE StepEval(_, _, _)
StepEval(c, ivs, t) ==
  Call(c, ivs[t + 1], IF t = 0 THEN EmptyMap ELSE StepEval(c, ivs, t - 1).val.lat)

UnrollSteps ==
  IF arg.only_last_outputs THEN {arg.horizon} ELSE 1 .. arg.horizon

\* C6: A.unroll(k) succeeds and has no latch; its inputs are w##time_t for
\* every input w and step t < k, its outputs w##time_(t+1) for every output w
\* and step t kept, each at the size of w; and one evaluation on the per-step
\* inputs gives every output the value the step-by-step evaluation of A from
\* its initial latch values gives it at that step.
C6_Unroll ==
  op = "unroll" =>
    /\ res.ok
    /\ LET c == res.val
           k == arg.horizon
       IN /\ Latches(c) = {} /\ AigLatches(c.aig) = {}
          /\ Inputs(c) = {TimeName(w, t) : w \in Inputs(A), t \in 0 .. (k - 1)}
          /\ Outputs(c) = {TimeName(w, t) : w \in Outputs(A), t \in UnrollSteps}
          /\ \A w \in Inputs(A), t \in 0 .. (k - 1) : c.imap[TimeName(w, t)] = A.imap[w]
          /\ \A w \in Outputs(A), t \in UnrollSteps : c.omap[TimeName(w, t)] = A.omap[w]
          /\ \A ivs \in [1 .. k -> WordAssign(A.imap)] :
               LET once == Call(c, [n \in Inputs(c) |->
                                      ivs[n[Len(n)][3] + 1][SubSeq(n, 1, Len(n) - 1)]],
                                EmptyMap).val.out
               IN \A w \in Outputs(A), t \in UnrollSteps :
                    once[TimeName(w, t)] = StepEval(A, ivs, t - 1).val.out[w]

C6_Witness ==
  /\ op = "unroll" /\ res.ok
  /\ arg.horizon > 1 /\ ~arg.only_last_outputs
  /\ Latches(A) # {} /\ Inputs(A) # {}
  /\ \E w \in Inputs(A) : A.imap[w] > 1

(***************************************************************************)
(* Blast and unblast.                                                      *)
(***************************************************************************)
\* C8: unblast(m, blast(m, v)) is v, blast having given bit i of word w to
\* the bit name w[i]; and an evaluation returns one mapping keyed by the
\* output words and one keyed by the latch words.
C8_AsClaimed ==
  /\ op \in {"roundtrip", "old_roundtrip"} =>
       /\ arg.bits.ok
       /\ LET bits == IF op = "roundtrip" THEN arg.bits.val ELSE arg.bits.val.val
          IN \A w \in DOMAIN arg.v : \A i \in 1 .. Len(arg.v[w]) :
               bits[w \o <<Idx(i - 1)>>] = arg.v[w][i]
       /\ res.ok /\ res.val = arg.v
  /\ op \in {"call", "old_call"} =>
       /\ res.ok
       /\ DOMAIN res.val.out = Outputs(A)
       /\ DOMAIN res.val.lat = Latches(A)

(***************************************************************************)
(* Arithmetic and expressions.                                             *)
(***************************************************************************)
\* The operands' values under an assignment v of the result's inputs.
XBits(v) == ExprCall(X, Restrict(v, ExprInputs(X))).val
YBits(v) ==
  IF Y.isint THEN IntToBits(Y.int, ExprSize(X).val)
  ELSE ExprCall(Y.e, Restrict(v, ExprInputs(Y.e))).val
YInputs == IF Y.isint THEN {} ELSE ExprInputs(Y.e)
SameWidth == Y.isint \/ ExprSize(Y.e).val = ExprSize(X).val

\* X op Y returned a single-output expression over the operands' inputs that
\* evaluates to the operator's value on the operands' values.
BinopAsSpecified ==
  /\ res.ok
  /\ ~IsExpr(res.val.aigbv)
  /\ Cardinality(Outputs(res.val.aigbv)) = 1
  /\ Inputs(res.val.aigbv) = ExprInputs(X) \cup YInputs
  /\ \A v \in WordAssign(res.val.aigbv.imap) :
       ExprCall(res.val, v)
         = Ok(BinValue(arg.g, ExprSize(X).val, BitsToInt(XBits(v)), BitsToInt(YBits(v))))

\* C7: the adder of package aigerbv evaluated on the constant sources a and b
\* gives (a + b) mod 2^n, the subtractor (a - b) mod 2^n; and e1 + e2, e1 - e2
\* on expressions of one width evaluate to the sum and the difference mod 2^n.
C7_AsClaimed ==
  /\ op = "old_adder" =>
       /\ res.ok
       /\ res.val.out[W("out")]
            = IntToBits((IF arg.sub THEN arg.a - arg.b + 2 ^ arg.wordlen ELSE arg.a + arg.b)
                          % (2 ^ arg.wordlen), arg.wordlen)
  /\ (op = "binop" /\ arg.g \in {"add", "sub"} /\ SameWidth) => BinopAsSpecified

\* C9: x op x, both operands the same circuit, is a single-output expression
\* over the inputs of x that evaluates to op on (value(x), value(x)), for every
\* op of + - & | ^ != <= >=.
C9_AsClaimed ==
  (op = "binop" /\ ~Y.isint /\ Y.e.obj = X.obj) => BinopAsSpecified

\* C10: x[a:b] and x[a] with 0 <= a < b <= n and no step are expressions with
\* one output word of width b - a whose bit j is bit a + j of x; an index with
\* a step, or outside that range, fails.
C10_AsClaimed ==
  op = "index" =>
    LET idx == arg.idx
        n == ExprSize(X).val
        a == IF idx.start.some THEN idx.start.val ELSE 0
        b == IF ~idx.isslice THEN a + 1 ELSE IF idx.stop.some THEN idx.stop.val ELSE n
    IN IF ~idx.step.some /\ 0 <= a /\ a < b /\ b <= n
       THEN /\ res.ok
            /\ Cardinality(Outputs(res.val.aigbv)) = 1
            /\ ExprSize(res.val).val = b - a
            /\ \A v \in WordAssign(res.val.aigbv.imap) :
                 LET r == ExprCall(res.val, v)
                 IN r.ok /\ \A j \in 1 .. (b - a) : r.val[j] = ExprCall(X, v).val[a + j]
       ELSE ~res.ok

====
